---- MODULE Spec2Model ----
(***************************************************************************)
(* Chunk-dispatch planning of the qserv master frontend                    *)
(* (lsst/qserv/master/app.py): InbandQueryAction._applyConstraints,        *)
(* _evaluateHints, SecondaryIndex.lookup, and the lazily initialised       *)
(* default metadata-cache session of MetadataCacheIface.                   *)
(***************************************************************************)
EXTENDS Integers, Sequences, FiniteSets, TLC

\* ------------------------------------------------------------------------
\* Program constants
\* ------------------------------------------------------------------------
dummyEmptyChunk == 1234567890

\* self.chunkLimit = 2**32 ("something big"); 2**32 is beyond the integers
\* of the model checker, which are 32 bit wide, so the default is the largest
\* of them: like 2**32 it exceeds every number of candidates
DefaultChunkLimit == 2147483647

\* threading.Semaphore() starts with the value 1
SemaphoreDefault == 1

\* ------------------------------------------------------------------------
\* Bounds of the model
\* ------------------------------------------------------------------------
MaxChunk == 1

MaxSub == 1

MaxHints == 2

MaxKey == 2

MaxLimit == 1

NumThreads == 2

MaxCalls == 2

ChunkIds == 0..MaxChunk

Keys == 1..MaxKey

Threads == 1..NumThreads

\* a key value that no row of the index table has
AbsentKey == 0

\* the Python value None of _defaultMetadataCacheSessionId
None == 0

VARIABLES
    pc,            \* position of InbandQueryAction.__init__ / _applyConstraints
    cfgLimit,      \* config value debug.chunkLimit
    chunkLimit,    \* self.chunkLimit
    isValid,       \* self.isValid
    error,         \* kind of self._error ("" when unset)
    hintList,      \* self.hintList
    regions,       \* regions of _evaluateHints
    indexTable,    \* contents of the secondary index table at lookup time
    indexRegions,  \* indexRegions of _evaluateHints
    isFullSky,     \* self._isFullSky
    intersectIter, \* self._intersectIter, as the sequence it enumerates
    emptyChunks,   \* self._emptyChunks
    pos,           \* position of the for loop in _intersectIter
    count,         \* count of _applyConstraints
    plan,          \* ChunkSpecs added to the session with addChunk
    rFirst,        \* RangePrint.first
    rLast,         \* RangePrint.last
    rLog,          \* lines printed by RangePrint._print
    defaultSessionId, \* global _defaultMetadataCacheSessionId
    nextSessionId,    \* last id handed out by newMetadataSession
    newSessionRuns,   \* number of completed MetadataCacheIface.newSession runs
    tpc,           \* per thread: position in getDefaultSessionId
    tsid,          \* per thread: value returned by its newSession call
    tcalls,        \* per thread: number of getDefaultSessionId calls begun
    returned,      \* per thread: sequence of values its calls returned
    sessionCreated,   \* self.sessionId has been assigned (line 466)
    invokeLock,    \* value of the semaphore self._invokeLock
    gpc,           \* per thread: position in invoke / getResult
    gcalls,        \* per thread: number of invoke and getResult calls begun
    gresults,      \* per thread: number of its getResult calls that returned
    invokeReleases,   \* number of invoke calls that released _invokeLock
    invokeRaised,  \* number of invoke calls left by an exception
    joined,        \* state the last joinSession returned ("none" before)
    reported,      \* _reportError has been called
    discarded      \* discardSession has been called

planVars == <<pc, cfgLimit, chunkLimit, isValid, error, hintList, regions,
              indexTable, indexRegions, isFullSky, intersectIter, emptyChunks,
              pos, count, plan, rFirst, rLast, rLog, sessionCreated>>

gateVars == <<invokeLock, gpc, gcalls, gresults, invokeReleases, invokeRaised,
              joined, reported, discarded>>

metaVars == <<defaultSessionId, nextSessionId, newSessionRuns, tpc, tsid,
              tcalls, returned>>

vars == <<pc, cfgLimit, chunkLimit, isValid, error, hintList, regions,
          indexTable, indexRegions, isFullSky, intersectIter, emptyChunks,
          pos, count, plan, rFirst, rLast, rLog,
          defaultSessionId, nextSessionId, newSessionRuns, tpc, tsid,
          tcalls, returned,
          sessionCreated, invokeLock, gpc, gcalls, gresults, invokeReleases,
          invokeRaised, joined, reported, discarded>>

\* ------------------------------------------------------------------------
\* Helpers on sequences
\* ------------------------------------------------------------------------
Range(s) == {s[i] : i \in 1..Len(s)}

NoDuplicates(s) == \A i, j \in 1..Len(s) : i # j => s[i] # s[j]

RECURSIVE Distinct(_)
\* rows of a UNION (distinct) in order of first occurrence
Distinct(s) ==
    IF s = <<>> THEN <<>>
    ELSE LET r == Distinct(SubSeq(s, 1, Len(s) - 1))
         IN  IF s[Len(s)] \in Range(r) THEN r ELSE Append(r, s[Len(s)])

RECURSIVE Flatten(_)
Flatten(ss) ==
    IF ss = <<>> THEN <<>> ELSE Head(ss) \o Flatten(Tail(ss))

RECURSIVE SetToSeq(_)
\* ascending enumeration of a finite set of integers
SetToSeq(S) ==
    IF S = {} THEN <<>>
    ELSE LET m == CHOOSE x \in S : \A y \in S : x <= y
         IN  <<m>> \o SetToSeq(S \ {m})

\* ------------------------------------------------------------------------
\* Hints
\* ------------------------------------------------------------------------
\* a region is abstracted to the set of chunks its extent overlaps: one
\* chunk, or none for a region outside the partition map's coverage; several
\* box hints cover several chunks
Regions == {{c} : c \in ChunkIds} \cup {{}}

BoxHint(r) == [name |-> "box", region |-> r, keyVals |-> {}]

BadBoxHint == [name |-> "badbox", region |-> {}, keyVals |-> {}]

OtherHint == [name |-> "other", region |-> {}, keyVals |-> {}]

IndexHint(k) == [name |-> "sIndex", region |-> {}, keyVals |-> k]

\* the key values of one sIndex hint: a value without a row, one key, or
\* all keys
KeyValSets == {{AbsentKey}, Keys} \cup {{k} : k \in Keys}

HintUniverse ==
    {BoxHint(r) : r \in Regions} \cup {BadBoxHint, OtherHint}
        \cup {IndexHint(k) : k \in KeyValSets}

HintLists == UNION {[1..n -> HintUniverse] : n \in 0..MaxHints}

CfgLimits == (-1)..MaxLimit

\* the index table: the chunkId of the row of every key
IndexTables == [Keys -> ChunkIds]

EmptyChunkSets == SUBSET (ChunkIds \cup {dummyEmptyChunk})

\* ------------------------------------------------------------------------
\* Partition map and geometry
\* ------------------------------------------------------------------------
SubChunksOf(c) == [i \in 1..MaxSub |-> i]

Pair(c, subs) == [isPair |-> TRUE, chunkId |-> c, subChunkIds |-> subs]

Bare(c) == [isPair |-> FALSE, chunkId |-> c, subChunkIds |-> <<>>]

\* iterating the partition map: one (chunkId, subIter) per chunk, ascending
PartitionMap == [i \in 1..(MaxChunk + 1) |-> Pair(i - 1, SubChunksOf(i - 1))]

\* pmap.intersect(regions), mapped to (chunkId, [subChunkId...])
Intersect(pmap, regs) ==
    SelectSeq(pmap, LAMBDA p : \E i \in 1..Len(regs) : p.chunkId \in regs[i])

HasHintError(hints) == \E i \in 1..Len(hints) : hints[i].name = "badbox"

\* RegionFactory.getRegionFromHint: the regions of the spatial hints
RegionsFromHint(hints) ==
    LET boxes == SelectSeq(hints, LAMBDA h : h.name = "box")
    IN  [i \in 1..Len(boxes) |-> boxes[i].region]

\* ------------------------------------------------------------------------
\* Secondary index
\* ------------------------------------------------------------------------
NoneResult == [isNone |-> TRUE, cids |-> <<>>]

Cids(s) == [isNone |-> FALSE, cids |-> s]

\* Python truth value of the result of lookup (None and [] are false)
Truthy(r) == ~r.isNone /\ Len(r.cids) > 0

\* IndexLookup objects built from the sIndex hints, in hint order
IndexLookups(hints) == SelectSeq(hints, LAMBDA h : h.name = "sIndex")

\* "SELECT chunkId FROM <index> WHERE <keyColumn> IN (<keys>)": one row per
\* matching key, in key order
SelectChunkIds(table, keyVals) ==
    LET ks == SelectSeq(SetToSeq(Keys),
                        LAMBDA k : k \in keyVals)
    IN  [i \in 1..Len(ks) |-> table[ks[i]]]

\* " UNION ".join(sqls): a single SELECT is issued as it is, several are
\* combined with UNION, which removes duplicate rows
JoinSqls(sels) ==
    IF Len(sels) = 1 THEN sels[1] ELSE Distinct(Flatten(sels))

Lookup(table, lookups) ==
    IF Len(lookups) = 0 THEN NoneResult
    ELSE Cids(JoinSqls([i \in 1..Len(lookups) |->
                            SelectChunkIds(table, lookups[i].keyVals)]))

\* ------------------------------------------------------------------------
\* _evaluateHints
\* ------------------------------------------------------------------------
InitialIntersectIterNone(pmap) == <<>>

InitialIntersectIter(pmap) == pmap

IndexUsedIfNotNone(idx) == ~idx.isNone

IndexUsed(idx) == Truthy(idx)

\* lines 484-497: the candidates the loop of _applyConstraints enumerates
EvalIntersectIter(pmap, regs, idx) ==
    LET base == IF Len(regs) > 0 THEN Intersect(pmap, regs)
                ELSE InitialIntersectIter(pmap)
    IN  IF IndexUsed(idx)
        THEN IF Len(regs) > 0
             THEN base \o [i \in 1..Len(idx.cids) |-> Bare(idx.cids[i])]
             ELSE LET m == [i \in 1..Len(idx.cids) |-> Pair(idx.cids[i], <<>>)]
                  IN  IF Len(m) = 0 THEN <<Pair(dummyEmptyChunk, <<>>)>> ELSE m
        ELSE base

\* lines 485-487 and 488-495: each branch taken clears _isFullSky
EvalIsFullSkyByCandidates(regs, idx) ==
    ~(Len(Intersect(PartitionMap, regs)) > 0) /\ ~IndexUsed(idx)

EvalIsFullSky(regs, idx) == ~(Len(regs) > 0) /\ ~IndexUsed(idx)

\* ------------------------------------------------------------------------
\* _applyConstraints and _importQconfig
\* ------------------------------------------------------------------------
EffectiveLimitOffByOne(cfg, cur) == IF cfg > 1 THEN cfg ELSE cur

EffectiveLimit(cfg, cur) == IF cfg > 0 THEN cfg ELSE cur

IsEmptyChunkNever(chunkId, empties) == FALSE

IsEmptyChunk(chunkId, empties) == chunkId \in empties

LimitReachedLate(cnt, limit) == cnt > limit

LimitReached(cnt, limit) == cnt >= limit

FallbackNeededNever(cnt) == cnt < 0

FallbackNeeded(cnt) == cnt = 0

ChunkSpec(c, subs) == [chunkId |-> c, subChunkIds |-> subs]

Sentinel == ChunkSpec(dummyEmptyChunk, <<>>)

\* RangePrint._print
PrintLine(first, last) ==
    IF last - first > 1 THEN [isRange |-> TRUE, first |-> first, last |-> last]
    ELSE [isRange |-> FALSE, first |-> last, last |-> last]

\* addChunk(self.sessionId, c): the session keeps the ChunkSpecs in the order
\* they are added
AddChunkInFront(session, c) == <<c>> \o session

AddChunk(session, c) == Append(session, c)

\* lines 554-556: a rejected chunk leaves count as it is (continue)
CountAfterRejectCounted(cnt) == cnt + 1

CountAfterReject(cnt) == cnt

\* rPrint = RangePrint(), count = 0 and the session as it is before the loop
LoopStart(session, log) ==
    [pos |-> 1, count |-> 0, plan |-> session, rFirst |-> -1, rLast |-> -1,
     rLog |-> log, status |-> "loop"]

\* RangePrint.add
RangeAdd(st, chunkId) ==
    [st EXCEPT !.rLog = IF st.rLast # chunkId - 1 /\ st.rLast # -1
                        THEN Append(@, PrintLine(st.rFirst, st.rLast)) ELSE @,
               !.rFirst = IF st.rLast # chunkId - 1 THEN chunkId ELSE @,
               !.rLast = chunkId]

RECURSIVE RunLoop(_, _, _, _)
\* the for loop of lines 553-569 from position st.pos on: it ends exhausted,
\* by break at the chunk limit, or with the TypeError of unpacking an element
\* that is not a (chunkId, subchunks) tuple
RunLoop(st, iter, empties, limit) ==
    IF st.pos > Len(iter) THEN [st EXCEPT !.status = "exhausted"]
    ELSE LET item == iter[st.pos]
         IN  IF ~item.isPair THEN [st EXCEPT !.status = "typeError"]
             ELSE IF IsEmptyChunk(item.chunkId, empties)
             THEN RunLoop([RangeAdd(st, item.chunkId) EXCEPT
                              !.pos = @ + 1,
                              !.count = CountAfterReject(@)],
                          iter, empties, limit)
             ELSE LET added ==
                          [st EXCEPT
                              !.plan = AddChunk(@, ChunkSpec(item.chunkId,
                                                             item.subChunkIds)),
                              !.count = @ + 1]
                  IN  IF LimitReached(added.count, limit)
                      THEN [added EXCEPT !.status = "break"]
                      ELSE RunLoop([added EXCEPT !.pos = @ + 1],
                                   iter, empties, limit)

\* ------------------------------------------------------------------------
\* Initial state: InbandQueryAction.__init__ up to line 414, and the module
\* global _defaultMetadataCacheSessionId = None
\* ------------------------------------------------------------------------
PlanInit ==
    /\ pc = "construct"
    /\ cfgLimit = 0
    /\ chunkLimit = DefaultChunkLimit
    /\ isValid = FALSE
    /\ error = ""
    /\ hintList = <<>>
    /\ regions = <<>>
    /\ indexTable = [k \in Keys |-> 0]
    /\ indexRegions = NoneResult
    /\ isFullSky = FALSE
    /\ intersectIter = <<>>
    /\ emptyChunks = {}
    /\ pos = 0
    /\ count = 0
    /\ plan = <<>>
    /\ rFirst = -1
    /\ rLast = -1
    /\ rLog = <<>>
    /\ sessionCreated = FALSE

MetaInit ==
    /\ defaultSessionId = None
    /\ nextSessionId = 0
    /\ newSessionRuns = 0
    /\ tpc = [t \in Threads |-> "idle"]
    /\ tsid = [t \in Threads |-> None]
    /\ tcalls = [t \in Threads |-> 0]
    /\ returned = [t \in Threads |-> <<>>]

\* threading.Semaphore: acquire blocks while the value is zero; release adds
\* one without an upper bound
CanAcquireAtZero(v) == v >= 0

CanAcquire(v) == v > 0

SemAcquire(v) == v - 1

SemReleaseBounded(v) == IF v >= SemaphoreDefault THEN SemaphoreDefault ELSE v + 1

SemRelease(v) == v + 1

\* lines 416-417: self._invokeLock = threading.Semaphore() and its acquire();
\* no invoke or getResult call has begun
GateInit ==
    /\ invokeLock = SemAcquire(SemaphoreDefault)
    /\ gpc = [t \in Threads |-> "idle"]
    /\ gcalls = [t \in Threads |-> 0]
    /\ gresults = [t \in Threads |-> 0]
    /\ invokeReleases = 0
    /\ invokeRaised = 0
    /\ joined = "none"
    /\ reported = FALSE
    /\ discarded = FALSE

Init == PlanInit /\ MetaInit /\ GateInit

\* the except clauses of __init__ (lines 424-430): isValid stays False
Raise(kind) ==
    /\ pc' = "failed"
    /\ error' = kind

\* ------------------------------------------------------------------------
\* Planning: __init__, _prepareForExec, _applyConstraints
\* ------------------------------------------------------------------------
\* _importQconfig
ImportQconfig ==
    /\ pc = "construct"
    /\ \E cfg \in CfgLimits :
          /\ cfgLimit' = cfg
          /\ chunkLimit' = EffectiveLimit(cfg, chunkLimit)
    /\ pc' = "prepare"
    /\ UNCHANGED <<metaVars, gateVars>>
    /\ UNCHANGED sessionCreated
    /\ UNCHANGED <<isValid, error, hintList, regions, indexTable, indexRegions,
                   isFullSky, intersectIter, emptyChunks, pos, count, plan,
                   rFirst, rLast, rLog>>

\* _prepareForExec: newSession, setupQuery without a session error
SetupQuery ==
    /\ pc = "prepare"
    /\ pc' = "constraints"
    /\ UNCHANGED <<metaVars, gateVars>>
    /\ sessionCreated' = TRUE
    /\ UNCHANGED <<cfgLimit, chunkLimit, isValid, error, hintList, regions,
                   indexTable, indexRegions, isFullSky, intersectIter,
                   emptyChunks, pos, count, plan, rFirst, rLast, rLog>>

\* line 421: getDefaultSessionId raises (metadata loading failed); the bare
\* except clause catches it before self.sessionId is assigned
MetaCacheError ==
    /\ pc = "prepare"
    /\ Raise("Unexpected")
    /\ UNCHANGED <<metaVars, gateVars>>
    /\ UNCHANGED <<cfgLimit, chunkLimit, isValid, hintList, regions,
                   indexTable, indexRegions, isFullSky, intersectIter,
                   emptyChunks, pos, count, plan, rFirst, rLast, rLog,
                   sessionCreated>>

\* _prepareForExec: getSessionError returns a message
SetupQueryParseError ==
    /\ pc = "prepare"
    /\ Raise("ParseError")
    /\ UNCHANGED <<metaVars, gateVars>>
    /\ sessionCreated' = TRUE
    /\ UNCHANGED <<cfgLimit, chunkLimit, isValid, hintList, regions,
                   indexTable, indexRegions, isFullSky, intersectIter,
                   emptyChunks, pos, count, plan, rFirst, rLast, rLog>>

\* _applyConstraints lines 514-528: the constraints of the parsed query
GetConstraints ==
    /\ pc = "constraints"
    /\ \E h \in HintLists : hintList' = h
    /\ pc' = "evaluate"
    /\ UNCHANGED <<metaVars, gateVars>>
    /\ UNCHANGED sessionCreated
    /\ UNCHANGED <<cfgLimit, chunkLimit, isValid, error, regions, indexTable,
                   indexRegions, isFullSky, intersectIter, emptyChunks, pos,
                   count, plan, rFirst, rLast, rLog>>

\* _evaluateHints with an empty hintList
EvaluateNoHints ==
    /\ pc = "evaluate"
    /\ Len(hintList) = 0
    /\ isFullSky' = TRUE
    /\ intersectIter' = InitialIntersectIter(PartitionMap)
    /\ pc' = "emptyChunks"
    /\ UNCHANGED <<metaVars, gateVars>>
    /\ UNCHANGED sessionCreated
    /\ UNCHANGED <<cfgLimit, chunkLimit, isValid, error, hintList, regions,
                   indexTable, indexRegions, emptyChunks, pos, count, plan,
                   rFirst, rLast, rLog>>

\* _evaluateHints lines 478-481 and _computeSpatialRegions
ComputeSpatialRegions ==
    /\ pc = "evaluate"
    /\ Len(hintList) > 0
    /\ ~HasHintError(hintList)
    /\ isFullSky' = TRUE
    /\ intersectIter' = InitialIntersectIter(PartitionMap)
    /\ regions' = RegionsFromHint(hintList)
    /\ pc' = "index"
    /\ UNCHANGED <<metaVars, gateVars>>
    /\ UNCHANGED sessionCreated
    /\ UNCHANGED <<cfgLimit, chunkLimit, isValid, error, hintList, indexTable,
                   indexRegions, emptyChunks, pos, count, plan, rFirst, rLast,
                   rLog>>

\* _computeSpatialRegions raises QueryHintError
SpatialRegionsError ==
    /\ pc = "evaluate"
    /\ Len(hintList) > 0
    /\ HasHintError(hintList)
    /\ isFullSky' = TRUE
    /\ intersectIter' = InitialIntersectIter(PartitionMap)
    /\ Raise("QueryHintError")
    /\ UNCHANGED <<metaVars, gateVars>>
    /\ UNCHANGED sessionCreated
    /\ UNCHANGED <<cfgLimit, chunkLimit, isValid, hintList, regions,
                   indexTable, indexRegions, emptyChunks, pos, count, plan,
                   rFirst, rLast, rLog>>

\* _computeIndexRegions, SecondaryIndex.lookup and lines 484-497
ComputeIndexRegions ==
    /\ pc = "index"
    /\ \E table \in IF Len(IndexLookups(hintList)) = 0 THEN {indexTable}
                    ELSE IndexTables :
          \E idx \in {Lookup(table, IndexLookups(hintList))} :
              /\ indexTable' = table
              /\ indexRegions' = idx
              /\ intersectIter' = EvalIntersectIter(PartitionMap, regions, idx)
              /\ isFullSky' = EvalIsFullSky(regions, idx)
    /\ pc' = "emptyChunks"
    /\ UNCHANGED <<metaVars, gateVars>>
    /\ UNCHANGED sessionCreated
    /\ UNCHANGED <<cfgLimit, chunkLimit, isValid, error, hintList, regions,
                   emptyChunks, pos, count, plan, rFirst, rLast, rLog>>

\* SecondaryIndex.lookup raises QueryHintError (mysqld error)
IndexLookupError ==
    /\ pc = "index"
    /\ Len(IndexLookups(hintList)) > 0
    /\ Raise("QueryHintError")
    /\ UNCHANGED <<metaVars, gateVars>>
    /\ UNCHANGED sessionCreated
    /\ UNCHANGED <<cfgLimit, chunkLimit, isValid, hintList, regions,
                   indexTable, indexRegions, isFullSky, intersectIter,
                   emptyChunks, pos, count, plan, rFirst, rLast, rLog>>

\* metadata.getEmptyChunks raises
EmptyChunksError ==
    /\ pc = "emptyChunks"
    /\ Raise("Unexpected")
    /\ UNCHANGED <<metaVars, gateVars>>
    /\ UNCHANGED sessionCreated
    /\ UNCHANGED <<cfgLimit, chunkLimit, isValid, hintList, regions,
                   indexTable, indexRegions, isFullSky, intersectIter,
                   emptyChunks, pos, count, plan, rFirst, rLast, rLog>>

\* lines 530-569 end with the loop exhausted or left by break; then lines
\* 570-575 (fallback chunk, rPrint.finish), _prepareMerger and isValid = True
FilterAndCap ==
    /\ pc = "emptyChunks"
    /\ \E e \in EmptyChunkSets :
          \E r \in {RunLoop(LoopStart(plan, rLog), intersectIter, e,
                              chunkLimit)} :
              /\ r.status \in {"exhausted", "break"}
              /\ emptyChunks' = e
              /\ pos' = r.pos
              /\ count' = r.count
              /\ plan' = IF FallbackNeeded(r.count)
                         THEN AddChunk(r.plan, Sentinel) ELSE r.plan
              /\ rFirst' = r.rFirst
              /\ rLast' = r.rLast
              /\ rLog' = Append(r.rLog, PrintLine(r.rFirst, r.rLast))
    /\ isValid' = TRUE
    /\ pc' = "done"
    /\ UNCHANGED <<metaVars, gateVars>>
    /\ UNCHANGED sessionCreated
    /\ UNCHANGED <<cfgLimit, chunkLimit, error, hintList, regions, indexTable,
                   indexRegions, isFullSky, intersectIter>>

\* lines 530-569 end at line 553 with TypeError: the element is a bare
\* chunkId of indexRegions, which line 492 chains behind the spatial tuples;
\* the except clause of __init__ catches it
FilterAndCapTypeError ==
    /\ pc = "emptyChunks"
    /\ \E e \in EmptyChunkSets :
          \E r \in {RunLoop(LoopStart(plan, rLog), intersectIter, e,
                              chunkLimit)} :
              /\ r.status = "typeError"
              /\ emptyChunks' = e
              /\ pos' = r.pos
              /\ count' = r.count
              /\ plan' = r.plan
              /\ rFirst' = r.rFirst
              /\ rLast' = r.rLast
              /\ rLog' = r.rLog
    /\ Raise("Unexpected")
    /\ UNCHANGED <<metaVars, gateVars>>
    /\ UNCHANGED sessionCreated
    /\ UNCHANGED <<cfgLimit, chunkLimit, isValid, hintList, regions,
                   indexTable, indexRegions, isFullSky, intersectIter>>

Next ==
    \/ ImportQconfig
    \/ MetaCacheError
    \/ SetupQuery
    \/ SetupQueryParseError
    \/ GetConstraints
    \/ EvaluateNoHints
    \/ ComputeSpatialRegions
    \/ SpatialRegionsError
    \/ ComputeIndexRegions
    \/ IndexLookupError
    \/ EmptyChunksError
    \/ FilterAndCap
    \/ FilterAndCapTypeError

Spec == Init /\ [][Next]_vars

\* ------------------------------------------------------------------------
\* MetadataCacheIface.getDefaultSessionId, called by several threads; a
\* thread may be preempted between any two statements
\* ------------------------------------------------------------------------
\* a thread enters getDefaultSessionId
CallGetDefault(t) ==
    /\ tpc[t] = "idle"
    /\ tcalls[t] < MaxCalls
    /\ tcalls' = [tcalls EXCEPT ![t] = @ + 1]
    /\ tpc' = [tpc EXCEPT ![t] = "check"]
    /\ UNCHANGED <<defaultSessionId, nextSessionId, newSessionRuns, tsid,
                   returned>>
    /\ UNCHANGED <<planVars, gateVars>>

\* line 204: if _defaultMetadataCacheSessionId is None
CheckDefault(t) ==
    /\ tpc[t] = "check"
    /\ tpc' = [tpc EXCEPT ![t] = IF defaultSessionId = None
                                 THEN "newSession" ELSE "return"]
    /\ UNCHANGED <<defaultSessionId, nextSessionId, newSessionRuns, tsid,
                   tcalls, returned>>
    /\ UNCHANGED <<planVars, gateVars>>

\* newSession: newMetadataSession and _fetchAllData succeed
NewSessionOk(t) ==
    /\ tpc[t] = "newSession"
    /\ nextSessionId' = nextSessionId + 1
    /\ tsid' = [tsid EXCEPT ![t] = nextSessionId + 1]
    /\ newSessionRuns' = newSessionRuns + 1
    /\ tpc' = [tpc EXCEPT ![t] = "assign"]
    /\ UNCHANGED <<defaultSessionId, tcalls, returned>>
    /\ UNCHANGED <<planVars, gateVars>>

\* newSession: _fetchAllData raises QmsException, which leaves
\* getDefaultSessionId
NewSessionRaises(t) ==
    /\ tpc[t] = "newSession"
    /\ nextSessionId' = nextSessionId + 1
    /\ tpc' = [tpc EXCEPT ![t] = "idle"]
    /\ UNCHANGED <<defaultSessionId, newSessionRuns, tsid, tcalls, returned>>
    /\ UNCHANGED <<planVars, gateVars>>

\* line 205: _defaultMetadataCacheSessionId = <result of newSession>
AssignDefault(t) ==
    /\ tpc[t] = "assign"
    /\ defaultSessionId' = tsid[t]
    /\ tpc' = [tpc EXCEPT ![t] = "print"]
    /\ UNCHANGED <<nextSessionId, newSessionRuns, tsid, tcalls, returned>>
    /\ UNCHANGED <<planVars, gateVars>>

\* line 206: printSession
PrintSession(t) ==
    /\ tpc[t] = "print"
    /\ tpc' = [tpc EXCEPT ![t] = "return"]
    /\ UNCHANGED <<defaultSessionId, nextSessionId, newSessionRuns, tsid,
                   tcalls, returned>>
    /\ UNCHANGED <<planVars, gateVars>>

\* line 207: return _defaultMetadataCacheSessionId
ReturnDefault(t) ==
    /\ tpc[t] = "return"
    /\ returned' = [returned EXCEPT ![t] = Append(@, defaultSessionId)]
    /\ tpc' = [tpc EXCEPT ![t] = "idle"]
    /\ UNCHANGED <<defaultSessionId, nextSessionId, newSessionRuns, tsid,
                   tcalls>>
    /\ UNCHANGED <<planVars, gateVars>>

NextMeta ==
    \/ \E t \in Threads : CallGetDefault(t)
    \/ \E t \in Threads : CheckDefault(t)
    \/ \E t \in Threads : NewSessionOk(t)
    \/ \E t \in Threads : NewSessionRaises(t)
    \/ \E t \in Threads : AssignDefault(t)
    \/ \E t \in Threads : PrintSession(t)
    \/ \E t \in Threads : ReturnDefault(t)

SpecMeta == Init /\ [][NextMeta]_vars

\* ------------------------------------------------------------------------
\* InbandQueryAction.invoke and getResult, called by several threads on one
\* constructed action
\* ------------------------------------------------------------------------
\* the action as __init__ leaves it: valid (a query without hints, no empty
\* chunk, no debug.chunkLimit), invalid by a ParseError of setupQuery, or
\* invalid because getDefaultSessionId raised before line 466
Constructed ==
    \E outcome \in {"valid", "parseError", "metaCacheError"} :
        \E r \in {RunLoop(LoopStart(<<>>, <<>>), PartitionMap, {},
                          DefaultChunkLimit)} :
            LET valid == outcome = "valid"
            IN  /\ pc = IF valid THEN "done" ELSE "failed"
                /\ cfgLimit = 0
                /\ chunkLimit = DefaultChunkLimit
                /\ isValid = valid
                /\ error = IF valid THEN ""
                           ELSE IF outcome = "parseError" THEN "ParseError"
                           ELSE "Unexpected"
                /\ hintList = <<>>
                /\ regions = <<>>
                /\ indexTable = [k \in Keys |-> 0]
                /\ indexRegions = NoneResult
                /\ isFullSky = valid
                /\ intersectIter = IF valid THEN InitialIntersectIter(PartitionMap)
                                   ELSE <<>>
                /\ emptyChunks = {}
                /\ pos = IF valid THEN r.pos ELSE 0
                /\ count = IF valid THEN r.count ELSE 0
                /\ plan = IF valid THEN r.plan ELSE <<>>
                /\ rFirst = -1
                /\ rLast = -1
                /\ rLog = IF valid THEN <<PrintLine(-1, -1)>> ELSE <<>>
                /\ sessionCreated = (outcome # "metaCacheError")

InitGate == Constructed /\ MetaInit /\ GateInit

\* a thread calls invoke
InvokeCall(t) ==
    /\ gpc[t] = "idle"
    /\ gcalls[t] < MaxCalls
    /\ gcalls' = [gcalls EXCEPT ![t] = @ + 1]
    /\ gpc' = [gpc EXCEPT ![t] = "exec"]
    /\ UNCHANGED <<invokeLock, gresults, invokeReleases, invokeRaised, joined,
                   reported, discarded>>
    /\ UNCHANGED <<planVars, metaVars>>

\* _execAndJoin returns: submitQuery3, joinSession, _reportError when the
\* state is not SUCCESS, discardSession when the action is not valid
ExecAndJoin(t) ==
    /\ gpc[t] = "exec"
    /\ sessionCreated
    /\ \E s \in {"SUCCESS", "ERROR"} :
          /\ joined' = s
          /\ reported' = (reported \/ s # "SUCCESS")
    /\ discarded' = (discarded \/ ~isValid)
    /\ gpc' = [gpc EXCEPT ![t] = "release"]
    /\ UNCHANGED <<invokeLock, gcalls, gresults, invokeReleases, invokeRaised>>
    /\ UNCHANGED <<planVars, metaVars>>

\* _execAndJoin raises at line 582: self.sessionId was never assigned; the
\* exception leaves invoke before line 436
ExecAndJoinRaises(t) ==
    /\ gpc[t] = "exec"
    /\ ~sessionCreated
    /\ invokeRaised' = invokeRaised + 1
    /\ gpc' = [gpc EXCEPT ![t] = "idle"]
    /\ UNCHANGED <<invokeLock, gcalls, gresults, invokeReleases, joined,
                   reported, discarded>>
    /\ UNCHANGED <<planVars, metaVars>>

\* line 436: self._invokeLock.release()
InvokeRelease(t) ==
    /\ gpc[t] = "release"
    /\ invokeLock' = SemRelease(invokeLock)
    /\ invokeReleases' = invokeReleases + 1
    /\ gpc' = [gpc EXCEPT ![t] = "idle"]
    /\ UNCHANGED <<gcalls, gresults, invokeRaised, joined, reported, discarded>>
    /\ UNCHANGED <<planVars, metaVars>>

\* a thread calls getResult
GetResultCall(t) ==
    /\ gpc[t] = "idle"
    /\ gcalls[t] < MaxCalls
    /\ gcalls' = [gcalls EXCEPT ![t] = @ + 1]
    /\ gpc' = [gpc EXCEPT ![t] = "acquire"]
    /\ UNCHANGED <<invokeLock, gresults, invokeReleases, invokeRaised, joined,
                   reported, discarded>>
    /\ UNCHANGED <<planVars, metaVars>>

\* line 449: self._invokeLock.acquire() gets the semaphore
GetResultAcquire(t) ==
    /\ gpc[t] = "acquire"
    /\ CanAcquire(invokeLock)
    /\ invokeLock' = SemAcquire(invokeLock)
    /\ gpc' = [gpc EXCEPT ![t] = "holding"]
    /\ UNCHANGED <<gcalls, gresults, invokeReleases, invokeRaised, joined,
                   reported, discarded>>
    /\ UNCHANGED <<planVars, metaVars>>

\* lines 451-452: self._invokeLock.release(); return self._resultName
GetResultReturn(t) ==
    /\ gpc[t] = "holding"
    /\ invokeLock' = SemRelease(invokeLock)
    /\ gresults' = [gresults EXCEPT ![t] = @ + 1]
    /\ gpc' = [gpc EXCEPT ![t] = "idle"]
    /\ UNCHANGED <<gcalls, invokeReleases, invokeRaised, joined, reported,
                   discarded>>
    /\ UNCHANGED <<planVars, metaVars>>

NextGate ==
    \/ \E t \in Threads : InvokeCall(t)
    \/ \E t \in Threads : ExecAndJoin(t)
    \/ \E t \in Threads : ExecAndJoinRaises(t)
    \/ \E t \in Threads : InvokeRelease(t)
    \/ \E t \in Threads : GetResultCall(t)
    \/ \E t \in Threads : GetResultAcquire(t)
    \/ \E t \in Threads : GetResultReturn(t)

SpecGate == InitGate /\ [][NextGate]_vars

\* ------------------------------------------------------------------------
\* Properties
\* ------------------------------------------------------------------------
Min(a, b) == IF a < b THEN a ELSE b

\* the chunk limit a debug.chunkLimit setting stands for
ClaimedLimit(cfg) == IF cfg > 0 THEN cfg ELSE DefaultChunkLimit

\* the candidates of a sequence that are not in a set of empty chunks
Kept(cands, empties) == SelectSeq(cands, LAMBDA p : p.chunkId \notin empties)

AsChunkSpecs(cands) ==
    [i \in 1..Len(cands) |-> ChunkSpec(cands[i].chunkId, cands[i].subChunkIds)]

\* filter, then cap, then fall back to the sentinel
ExpectedPlan(cands, empties, limit) ==
    LET kept == Kept(cands, empties)
    IN  IF Len(kept) = 0 THEN <<Sentinel>>
        ELSE AsChunkSpecs(SubSeq(kept, 1, Min(limit, Len(kept))))

PlanChunkIds == {plan[i].chunkId : i \in 1..Len(plan)}

\* C1 (as stated): no ChunkSpec added to the session, the one of the
\* dummy-chunk fallback included, has a chunkId that is in EmptyChunkSet.
C1_NoEmptyChunkInPlan ==
    \A i \in 1..Len(plan) : plan[i].chunkId \notin emptyChunks

\* C1 (amended): every ChunkSpec the filter loop adds has a chunkId outside
\* EmptyChunkSet; a ChunkSpec of the session whose chunkId is in EmptyChunkSet
\* can only be the sentinel of the fallback, which is added without
\* consulting EmptyChunkSet when the loop retained nothing.
C1_OnlyFallbackSentinelMayBeEmpty ==
    \A i \in 1..Len(plan) :
        plan[i].chunkId \in emptyChunks =>
            /\ plan = <<Sentinel>>
            /\ count = 0
            /\ pc = "done"

C1_Witness ==
    /\ pc = "done"
    /\ count > 0
    /\ \E i \in 1..Len(intersectIter) :
          i < pos /\ intersectIter[i].chunkId \in emptyChunks

C3_ZeroRetainedGivesSentinel ==
    pc = "done" =>
        /\ Len(plan) >= 1
        /\ count = 0 => plan = <<Sentinel>>

C3_Witness ==
    /\ pc = "done"
    /\ count = 0
    /\ Len(intersectIter) > 0
    /\ plan = <<Sentinel>>

\* C4 (as stated): a final plan never holds two ChunkSpecs with the same
\* chunkId.
C4_UniqueChunkIds ==
    pc = "done" =>
        \A i, j \in 1..Len(plan) : i # j => plan[i].chunkId # plan[j].chunkId

\* the chunkIds of the index rows that the keys of the lookups match
MatchingChunkIds ==
    LET lookups == IndexLookups(hintList)
    IN  {indexTable[k] : k \in {x \in Keys :
            \E i \in 1..Len(lookups) : x \in lookups[i].keyVals}}

\* C5 (as stated): for a non-empty sequence of lookups, lookup returns every
\* matching chunkId exactly once.
C5_LookupReturnsEachOnce ==
    ~indexRegions.isNone =>
        /\ NoDuplicates(indexRegions.cids)
        /\ Range(indexRegions.cids) = MatchingChunkIds

\* C6: for every debug.chunkLimit setting (a value <= 0 leaves the default)
\* the number of ChunkSpecs added to the session, fallback sentinel included,
\* never exceeds the effective chunk limit.
C6_PlanWithinLimit ==
    pc # "construct" =>
        /\ chunkLimit = ClaimedLimit(cfgLimit)
        /\ Len(plan) <= ClaimedLimit(cfgLimit)

C6_Witness ==
    /\ pc = "done"
    /\ cfgLimit > 0
    /\ Len(plan) = cfgLimit
    /\ pos < Len(intersectIter)

\* the n lowest numbers of a set
Lowest(S, n) == LET ids == SetToSeq(S)
                IN  {ids[i] : i \in 1..Min(n, Len(ids))}

C8_NoPartialPlanOnError ==
    pc = "failed" => plan = <<>>

\* hints are present, yield no region and the index lookup no chunkId
ResolvedToNothing ==
    /\ Len(hintList) > 0
    /\ Len(regions) = 0
    /\ ~Truthy(indexRegions)

C10_NewSessionAtMostOnce ==
    /\ newSessionRuns <= 1
    /\ \A t, u \in Threads :
          \A i \in 1..Len(returned[t]) : \A j \in 1..Len(returned[u]) :
              returned[t][i] = returned[u][j]

StrictlyAscending(ids) == \A i \in 1..(Len(ids) - 1) : ids[i] < ids[i + 1]

PlanIdSeq == [i \in 1..Len(plan) |-> plan[i].chunkId]

RealPlan == SelectSeq(plan, LAMBDA c : c.chunkId # dummyEmptyChunk)

\* C14: rejected candidates do not consume the chunk limit: a completed plan
\* holds exactly min(L, number of candidates not in EmptyChunkSet) real
\* ChunkSpecs, the first ones of the enumeration, and count is that number.
C14_CapCountsOnlyRetained ==
    LET kept == Kept(intersectIter, emptyChunks)
        n == Min(ClaimedLimit(cfgLimit), Len(kept))
    IN  pc = "done" =>
            /\ count = n
            /\ Len(RealPlan) = n
            /\ RealPlan = AsChunkSpecs(SubSeq(kept, 1, n))

C14_Witness ==
    /\ pc = "done"
    /\ count = ClaimedLimit(cfgLimit)
    /\ RealPlan = plan
    /\ \E i \in 1..(pos - 1) : intersectIter[i].chunkId \in emptyChunks

\* the chunkIds the loop rejected, in the order it visited them
RejectedIds ==
    LET visited == SubSeq(intersectIter, 1, Min(pos, Len(intersectIter)))
        rej == SelectSeq(visited, LAMBDA p : p.chunkId \in emptyChunks)
    IN  [i \in 1..Len(rej) |-> rej[i].chunkId]

RECURSIVE MaximalRuns(_)
\* a sequence of chunkIds folded into its maximal runs of consecutive ids
MaximalRuns(ids) ==
    IF ids = <<>> THEN <<>>
    ELSE LET rest == MaximalRuns(Tail(ids))
         IN  IF rest # <<>> /\ rest[1].first = Head(ids) + 1
             THEN <<[first |-> Head(ids), last |-> rest[1].last]>> \o Tail(rest)
             ELSE <<[first |-> Head(ids), last |-> Head(ids)]>> \o rest

\* one report per run: a single chunk for a run of length 1, a range otherwise
RunReports(ids) ==
    LET runs == MaximalRuns(ids)
    IN  [i \in 1..Len(runs) |->
            [isRange |-> runs[i].first # runs[i].last,
             first |-> runs[i].first, last |-> runs[i].last]]

\* C15: the rejection reports of a completed plan are the rejected chunkId
\* sequence folded into maximal runs, each run reported once with its true
\* first and last chunkId (a run of length 1 as a single chunk, every longer
\* run as a range), and nothing is reported when no chunk was rejected.
C15_ReportsAreMaximalRuns ==
    pc = "done" => rLog = RunReports(RejectedIds)

\* C16 (as stated): after _evaluateHints, isFullSky is false exactly when the
\* hints yield at least one spatial candidate chunk of the partition-map
\* intersection or at least one index-derived chunkId.
C16_FullSkyIffNoCandidates ==
    pc \in {"emptyChunks", "done"} =>
        (isFullSky <=>
            /\ Intersect(PartitionMap, regions) = <<>>
            /\ (indexRegions.isNone \/ indexRegions.cids = <<>>))

\* C16 (amended): after _evaluateHints, isFullSky is false exactly when the
\* hints yield at least one spatial region, whether or not the region matches
\* a chunk of the partition map, or at least one index-derived chunkId; it is
\* true for an empty hint list.
C16_FullSkyIffNoRegionNoIndex ==
    pc \in {"emptyChunks", "done"} =>
        /\ isFullSky <=>
              /\ regions = <<>>
              /\ (indexRegions.isNone \/ indexRegions.cids = <<>>)
        /\ hintList = <<>> => isFullSky

C16_Witness ==
    /\ pc = "done"
    /\ regions # <<>>
    /\ Intersect(PartitionMap, regions) = <<>>
    /\ ~Truthy(indexRegions)
    /\ ~isFullSky

\* C17: once a call of getDefaultSessionId has succeeded, every later call
\* returns that same id: the ids one thread gets from its successive calls,
\* each begun after the one before it returned, are all equal.
C17_LaterCallsReturnSameId ==
    \A t \in Threads :
        \A i, j \in 1..Len(returned[t]) : returned[t][i] = returned[t][j]

\* the number of invoke calls whose _execAndJoin has returned
ExecFinished ==
    invokeReleases + Cardinality({t \in Threads : gpc[t] = "release"})

\* the threads that are in getResult between its acquire and its release
Holders == {t \in Threads : gpc[t] = "holding"}

\* C12: in every interleaving of invoke and getResult calls on one action, no
\* getResult gets past its acquire, or returns, before some invoke has
\* finished _execAndJoin; until then the semaphore stays at zero, so a
\* getResult called earlier stays blocked.
C12_NoResultBeforeExecFinished ==
    /\ (\E t \in Threads : t \in Holders \/ gresults[t] > 0) =>
           ExecFinished >= 1
    /\ ExecFinished = 0 => invokeLock = 0

C12_Witness ==
    \E t, u \in Threads :
        /\ gpc[t] = "acquire"
        /\ gresults[t] = 0
        /\ gpc[u] = "release"
        /\ invokeReleases = 0
        /\ invokeLock = 0

\* C13 (as stated): over every interleaving of invoke and getResult calls,
\* invoke called more than once included, the semaphore count never exceeds 1.
C13_LockNeverExceedsOne ==
    invokeLock <= SemaphoreDefault

\* C13 (amended): every invoke call whose _execAndJoin returns releases the
\* semaphore once more: its count plus the number of getResult calls between
\* acquire and release equals the number of such invoke calls, so it never
\* exceeds 1 only as long as at most one invoke call has released.
C13_LockCountsInvokeReleases ==
    /\ invokeLock + Cardinality(Holders) = invokeReleases
    /\ invokeLock >= 0
    /\ invokeReleases <= 1 => invokeLock <= 1

C13_Witness ==
    /\ invokeReleases = 2
    /\ invokeLock = 2
    /\ \E t \in Threads : gresults[t] > 0

\* C18: every invoke call resolves the gate whatever the outcome of the
\* execution: once the invoke calls that were begun have all ended, by
\* return or by an exception of _execAndJoin, the semaphore is available to
\* getResult, so that no getResult call stays blocked.
C18_EndedInvokeResolvesGate ==
    (/\ invokeReleases + invokeRaised > 0
     /\ \A t \in Threads : gpc[t] \notin {"exec", "release"}) =>
        invokeLock + Cardinality(Holders) >= 1

====
